---- MODULE Spec2Model ----
(***************************************************************************)
(* Model of chainNotifierClient (src/chainnotifier_client.go): the three   *)
(* registration operations, the worker goroutine each one spawns, the      *)
(* sync.WaitGroup behind WaitForFinished, and the environment the workers  *)
(* talk to: the server stream (Recv), the caller's context (cancellation)  *)
(* and the caller receiving on the returned channels.                      *)
(***************************************************************************)
EXTENDS Integers, Sequences, FiniteSets, TLC

\* ------------------------------------------------------------- bounds
\* Number of registration calls made on one client.
MaxSubs == 2
\* Number of inputs the environment gives: the events and errors the streams
\* deliver, and the contexts the caller cancels.
MaxInputs == 3

Subs == 1..MaxSubs

\* ------------------------------------------------------ wire values
\* A byte slice is modelled by its length and the byte it is filled with.
Bytes(n, b) == [len |-> n, fill |-> b]

\* A uint32 is kept as two 16-bit halves: its value is hi * 65536 + lo.
U32(hi, lo) == [hi |-> hi, lo |-> lo]

\* Mutant of Int32: a conversion that saturates at the largest int32.
Int32Saturating(u) == IF u.hi < 32768 THEN u.hi * 65536 + u.lo
                      ELSE 32767 * 65536 + 65535

\* int32(x) of a uint32 x, as Go converts: the same 32 bits, two's complement.
Int32(u) == IF u.hi < 32768 THEN u.hi * 65536 + u.lo
            ELSE (u.hi - 65536) * 65536 + u.lo

\* chainhash.NewHash: a hash is exactly 32 bytes, anything else is an error.
NewHash(b) == IF b.len = 32 THEN [ok |-> TRUE, hash |-> b]
              ELSE [ok |-> FALSE, hash |-> b]

\* decodeTx: the raw-transaction decoder; a structured transaction or an error.
decodeTx(raw) == IF raw = "validTx" THEN [ok |-> TRUE, tx |-> "tx"]
                 ELSE [ok |-> FALSE, tx |-> "none"]

\* --------------------------------------------- what a stream delivers
NoOutpoint == [isNil |-> TRUE, hash |-> Bytes(0, 0), index |-> 0]
Outpoint(n) == [isNil |-> FALSE, hash |-> Bytes(n, 0), index |-> 0]

\* chainrpc.SpendDetails; 700000 = 10 * 65536 + 44640.
SpendDetails(o, n, raw) ==
    [isNil |-> FALSE, SpendingOutpoint |-> o, SpendingTxHash |-> Bytes(n, 17),
     RawSpendingTx |-> raw, SpendingInputIndex |-> 2,
     SpendingHeight |-> U32(10, 44640)]
NoSpendDetails == [isNil |-> TRUE, SpendingOutpoint |-> NoOutpoint,
                   SpendingTxHash |-> Bytes(0, 0), RawSpendingTx |-> "garbage",
                   SpendingInputIndex |-> 0, SpendingHeight |-> U32(0, 0)]
\* The well-formed details, and the details with one thing wrong: absent,
\* no outpoint, an outpoint hash of 31 bytes, a transaction hash of 33 bytes,
\* raw bytes that are no transaction; and details with no outpoint whose raw
\* bytes are no transaction either.
SpendDetailsSet ==
    {SpendDetails(Outpoint(32), 32, "validTx"),
     NoSpendDetails,
     SpendDetails(NoOutpoint, 32, "validTx"),
     SpendDetails(Outpoint(31), 32, "validTx"),
     SpendDetails(Outpoint(32), 33, "validTx"),
     SpendDetails(Outpoint(32), 32, "garbage"),
     SpendDetails(NoOutpoint, 32, "garbage")}

\* chainrpc.ConfDetails
ConfDetails(raw, n) ==
    [isNil |-> FALSE, RawTx |-> raw, BlockHash |-> Bytes(n, 34),
     BlockHeight |-> U32(10, 44640), TxIndex |-> 1]
NoConfDetails == [isNil |-> TRUE, RawTx |-> "garbage", BlockHash |-> Bytes(0, 0),
                  BlockHeight |-> U32(0, 0), TxIndex |-> 0]
ConfDetailsSet ==
    {ConfDetails("validTx", 32),
     NoConfDetails,
     ConfDetails("garbage", 32),
     ConfDetails("validTx", 31)}

\* chainrpc.SpendEvent: the oneof Event is Spend, Reorg or unset.
SpendEvents == {[tag |-> "spend", d |-> d] : d \in SpendDetailsSet} \cup
               {[tag |-> t, d |-> NoSpendDetails] : t \in {"reorg", "unset"}}

\* chainrpc.ConfEvent: the oneof Event is Conf, Reorg, unset, or a variant
\* this client does not know.
ConfEvents == {[tag |-> "conf", d |-> d] : d \in ConfDetailsSet} \cup
              {[tag |-> t, d |-> NoConfDetails] : t \in {"reorg", "unset", "other"}}

\* chainrpc.BlockEpoch.Height: 100, 2^31 - 1 and 2^31.
Heights == {U32(0, 100), U32(32767, 65535), U32(32768, 0)}
EpochEvents == {[tag |-> "epoch", Height |-> h] : h \in Heights}

\* A Recv that returned an error, as the stream's history records it.
ErrorEntry == [tag |-> "error"]

\* Mutant of OutCap: every output channel is unbuffered.
OutCapUnbuffered(k) == 0

\* make(chan T, n): the buffer sizes of the channels a registration returns.
OutCap(k) == IF k = "epoch" THEN 0 ELSE 1
ErrCap == 1

\* ---------------------------------------------------------------- state
VARIABLES
    kind,       \* kind[i]: which registration operation call i was
    pc,         \* pc[i]: "none" (not called), "failed" (setup error), and the
                \* worker's position: "recv", "sendOut", "sendErr", "offer"
                \* (blocked in the select), "done" (returned), "panicked"
    ret,        \* ret[i]: what the registration call returned
    log,        \* log[i]: what the stream's Recv has returned so far
    pend,       \* pend[i]: the value or error the worker is about to send
    outChan,    \* outChan[i]: buffer of the output channel
    errChan,    \* errChan[i]: buffer of the error channel
    gotOut,     \* gotOut[i]: values the caller has received from the output channel
    gotErr,     \* gotErr[i]: errors the caller has received from the error channel
    receiving,  \* receiving[i]: the caller is blocked receiving on the
                \* unbuffered output channel
    cancelled,  \* cancelled[i]: the ctx passed to call i is done
    wg,         \* the sync.WaitGroup counter
    waitPc,     \* WaitForFinished: "idle" (not called or blocked), "returned"
    crashed     \* an unrecovered panic has ended the process

vars == <<kind, pc, ret, log, pend, outChan, errChan, gotOut, gotErr, receiving,
          cancelled, wg, waitPc, crashed>>

Running == {"recv", "sendOut", "sendErr", "offer"}

\* ret[i] before registration call i has returned.
NotReturned == [out |-> "none", err |-> "none", error |-> "none"]

RECURSIVE SumLog(_)
SumLog(S) == IF S = {} THEN 0
                ELSE LET i == CHOOSE x \in S : TRUE
                     IN Len(log[i])
                        + SumLog(S \ {i})
\* What the environment has done so far: stream deliveries and cancellations.
InputsUsed == SumLog(Subs) + Cardinality({i \in Subs : cancelled[i]})

Init ==
    /\ kind = [i \in Subs |-> "none"]
    /\ pc = [i \in Subs |-> "none"]
    /\ ret = [i \in Subs |-> NotReturned]
    /\ log = [i \in Subs |-> <<>>]
    /\ pend = [i \in Subs |-> <<>>]
    /\ outChan = [i \in Subs |-> <<>>]
    /\ errChan = [i \in Subs |-> <<>>]
    /\ gotOut = [i \in Subs |-> <<>>]
    /\ gotErr = [i \in Subs |-> <<>>]
    /\ receiving = [i \in Subs |-> FALSE]
    /\ cancelled = [i \in Subs |-> FALSE]
    /\ wg = 0
    /\ waitPc = "idle"
    /\ crashed = FALSE

\* ------------------------------------------------------ registration
\* What a registration call returns: (nil, nil, err) when the stream could not
\* be opened, two fresh channels and a nil error otherwise.
RegisterReturn(ok) ==
    IF ok THEN [out |-> "chan", err |-> "chan", error |-> "nil"]
    ELSE [out |-> "nil", err |-> "nil", error |-> "SetupError"]

\* Mutants of WgAfterRegister: wg.Add(1) moved above the error check, and
\* wg.Add(1) forgotten.
WgAddBeforeCheck(ok) == wg + 1
WgAddForgotten(ok) == wg

\* s.wg.Add(1) on the success path; the failure path returns before it.
WgAfterRegister(ok) == IF ok THEN wg + 1 ELSE wg

\* The worker a registration leaves behind: `go func()` on the success path.
PcAfterRegister(ok) == IF ok THEN "recv" ELSE "failed"

\* Calls are numbered in the order they are made.
Register(i, k) ==
    /\ ~crashed
    /\ pc[i] = "none"
    /\ \A j \in Subs : j < i => pc[j] # "none"
    /\ \E ok \in BOOLEAN :
        /\ ret' = [ret EXCEPT ![i] = RegisterReturn(ok)]
        /\ wg' = WgAfterRegister(ok)
        /\ pc' = [pc EXCEPT ![i] = PcAfterRegister(ok)]
    /\ kind' = [kind EXCEPT ![i] = k]
    /\ UNCHANGED <<log, pend, outChan, errChan, gotOut, gotErr, receiving,
                   cancelled, waitPc, crashed>>

RegisterSpendNtfn(i) == Register(i, "spend")
RegisterConfirmationsNtfn(i) == Register(i, "conf")
RegisterBlockEpochNtfn(i) == Register(i, "epoch")

\* ------------------------------------------------------------ workers
\* Mutant of WgDone: the worker returns without the deferred call.
WgDoneSkipped == wg

\* defer s.wg.Done()
WgDone == wg - 1

\* processSpendDetail up to its send: the error it returns, the SpendDetail it
\* is about to send on spendChan, or the nil dereference of d / d.SpendingOutpoint.
processSpendDetail(d) ==
    IF d.isNil \/ d.SpendingOutpoint.isNil THEN [to |-> "panicked", pend |-> <<>>]
    ELSE IF ~NewHash(d.SpendingOutpoint.hash).ok
        THEN [to |-> "sendErr", pend |-> <<"HashError">>]
    ELSE IF ~NewHash(d.SpendingTxHash).ok
        THEN [to |-> "sendErr", pend |-> <<"HashError">>]
    ELSE IF ~decodeTx(d.RawSpendingTx).ok
        THEN [to |-> "sendErr", pend |-> <<"TxError">>]
    ELSE [to |-> "sendOut",
          pend |-> <<[SpentOutPoint |->
                         [Hash |-> NewHash(d.SpendingOutpoint.hash).hash,
                          Index |-> d.SpendingOutpoint.index],
                      SpenderTxHash |-> NewHash(d.SpendingTxHash).hash,
                      SpenderInputIndex |-> d.SpendingInputIndex,
                      SpendingTx |-> decodeTx(d.RawSpendingTx).tx,
                      SpendingHeight |-> Int32(d.SpendingHeight)]>>]

\* Mutant of SpendOnOther: an event that is no Spend is reported as an error.
SpendOnOtherFatal == [to |-> "sendErr", pend |-> <<"spend event has unexpected type">>]

\* An event whose variant is not Spend fails the type assertion: the loop goes on.
SpendOnOther == [to |-> "recv", pend |-> <<>>]

\* The spend worker's handling of one received event: only the Spend variant
\* leaves the loop.
SpendOnEvent(ev) ==
    IF ev.tag = "spend" THEN processSpendDetail(ev.d) ELSE SpendOnOther

\* case *chainrpc.ConfEvent_Conf: decode the transaction and the block hash and
\* send the TxConfirmation; c.Conf is dereferenced unchecked.
ConfOnConf(d) ==
    IF d.isNil THEN [to |-> "panicked", pend |-> <<>>]
    ELSE IF ~decodeTx(d.RawTx).ok
        THEN [to |-> "sendErr", pend |-> <<"TxError">>]
    ELSE IF ~NewHash(d.BlockHash).ok
        THEN [to |-> "sendErr", pend |-> <<"HashError">>]
    ELSE [to |-> "sendOut",
          pend |-> <<[BlockHeight |-> d.BlockHeight,
                      BlockHash |-> NewHash(d.BlockHash).hash,
                      Tx |-> decodeTx(d.RawTx).tx,
                      TxIndex |-> d.TxIndex]>>]

\* Mutant of ConfOnReorg: a reorg is reported as an unexpected event.
ConfOnReorgFatal == [to |-> "sendErr", pend |-> <<"conf event has unexpected type">>]

\* case *chainrpc.ConfEvent_Reorg: continue
ConfOnReorg == [to |-> "recv", pend |-> <<>>]

\* Mutant of ConfOnNil: the empty event is skipped.
ConfOnNilSkipped == [to |-> "recv", pend |-> <<>>]

\* case nil: the error "conf event empty"
ConfOnNil == [to |-> "sendErr", pend |-> <<"conf event empty">>]

\* Mutant of ConfOnUnexpected: an unknown variant is skipped.
ConfOnUnexpectedSkipped == [to |-> "recv", pend |-> <<>>]

\* default: the error "conf event has unexpected type"
ConfOnUnexpected == [to |-> "sendErr", pend |-> <<"conf event has unexpected type">>]

\* The confirmation worker's switch on the event's variant.
ConfOnEvent(ev) ==
    CASE ev.tag = "conf" -> ConfOnConf(ev.d)
      [] ev.tag = "reorg" -> ConfOnReorg
      [] ev.tag = "unset" -> ConfOnNil
      [] OTHER -> ConfOnUnexpected

\* Mutant of EpochOnEvent: the height is cut to 16 bits.
EpochOnEventLow16(ev) == ev.Height.lo

\* The value the block-epoch worker offers for a received epoch:
\* int32(epoch.Height).
EpochOnEvent(ev) == Int32(ev.Height)

\* Mutant of OnRecvError: the worker calls Recv again.
OnRecvErrorRetry == [to |-> "recv", pend |-> <<>>]

\* Recv returned an error: the worker goes to `errChan <- err`.
OnRecvError == [to |-> "sendErr", pend |-> <<"StreamError">>]

EventsOf(k) == IF k = "spend" THEN SpendEvents ELSE ConfEvents

OnEvent(k, ev) == IF k = "spend" THEN SpendOnEvent(ev) ELSE ConfOnEvent(ev)

\* The worker moves to position r.to holding r.pend, having received `entry`.
\* A panic runs the deferred wg.Done() and ends the process.
WorkerGoes(i, entry, r) ==
    /\ log' = [log EXCEPT ![i] = Append(@, entry)]
    /\ pend' = [pend EXCEPT ![i] = r.pend]
    /\ pc' = [pc EXCEPT ![i] = r.to]
    /\ wg' = IF r.to = "panicked" THEN WgDone ELSE wg
    /\ crashed' = (r.to = "panicked")
    /\ UNCHANGED <<kind, ret, outChan, errChan, gotOut, gotErr, receiving,
                   cancelled, waitPc>>

\* A single-shot worker's Recv returns an event and the worker handles it.
RecvEvent(i) ==
    /\ ~crashed
    /\ pc[i] = "recv"
    /\ kind[i] \in {"spend", "conf"}
    /\ InputsUsed < MaxInputs
    /\ \E ev \in EventsOf(kind[i]) : WorkerGoes(i, ev, OnEvent(kind[i], ev))

\* Mutant of RecvError: a worker blocked in the select also sees the stream's
\* error.
RecvErrorWhileOffering(i) ==
    /\ ~crashed
    /\ pc[i] \in {"recv", "offer"}
    /\ (InputsUsed < MaxInputs \/ cancelled[i])
    /\ WorkerGoes(i, ErrorEntry, OnRecvError)

\* resp.Recv() returns an error. The stream was opened with the caller's ctx,
\* so a cancelled ctx can always end it.
RecvError(i) ==
    /\ ~crashed
    /\ pc[i] = "recv"
    /\ (InputsUsed < MaxInputs \/ cancelled[i])
    /\ WorkerGoes(i, ErrorEntry, OnRecvError)

\* The worker returns: the deferred wg.Done() runs.
WorkerReturns(i) ==
    /\ pc' = [pc EXCEPT ![i] = "done"]
    /\ pend' = [pend EXCEPT ![i] = <<>>]
    /\ wg' = WgDone

\* spendChan <- detail / confChan <- conf, then return.
SendOut(i) ==
    /\ ~crashed
    /\ pc[i] = "sendOut"
    /\ Len(outChan[i]) < OutCap(kind[i])
    /\ outChan' = [outChan EXCEPT ![i] = Append(@, pend[i][1])]
    /\ WorkerReturns(i)
    /\ UNCHANGED <<kind, ret, log, errChan, gotOut, gotErr, receiving,
                   cancelled, waitPc, crashed>>

\* errChan <- err, then return.
SendErr(i) ==
    /\ ~crashed
    /\ pc[i] = "sendErr"
    /\ Len(errChan[i]) < ErrCap
    /\ errChan' = [errChan EXCEPT ![i] = Append(@, pend[i][1])]
    /\ WorkerReturns(i)
    /\ UNCHANGED <<kind, ret, log, outChan, gotOut, gotErr, receiving,
                   cancelled, waitPc, crashed>>

\* Mutant of CtxDone: the select waits on a context that is never cancelled.
CtxDoneNever(i) == FALSE

\* <-ctx.Done() is ready: the ctx passed to the registration call is cancelled.
CtxDone(i) == cancelled[i]

\* The send case of the select completes with value v: the caller takes it from
\* the unbuffered channel and the worker loops back to Recv.
Delivered(i, v) ==
    /\ gotOut' = [gotOut EXCEPT ![i] = Append(@, v)]
    /\ receiving' = [receiving EXCEPT ![i] = FALSE]
    /\ pend' = [pend EXCEPT ![i] = <<>>]
    /\ pc' = [pc EXCEPT ![i] = "recv"]
    /\ UNCHANGED <<kind, ret, outChan, errChan, gotErr, cancelled, wg, waitPc,
                   crashed>>

\* Mutant of CancelObserved: the value is flushed to the caller before the
\* worker returns.
CancelObservedFlush(i, v) ==
    /\ gotOut' = [gotOut EXCEPT ![i] = Append(@, v)]
    /\ pc' = [pc EXCEPT ![i] = "done"]
    /\ pend' = [pend EXCEPT ![i] = <<>>]
    /\ wg' = wg - 1
    /\ UNCHANGED <<kind, ret, outChan, errChan, gotErr, receiving, cancelled,
                   waitPc, crashed>>

\* Mutant of CancelObserved: the worker reports the cancellation on the error
\* channel before it returns.
CancelObservedReports(i, v) ==
    /\ WorkerReturns(i)
    /\ errChan' = [errChan EXCEPT ![i] = Append(@, "context canceled")]
    /\ UNCHANGED <<kind, ret, outChan, gotOut, gotErr, receiving,
                   cancelled, waitPc, crashed>>

\* The ctx.Done() case of the select is taken with value v in hand: return.
CancelObserved(i, v) ==
    /\ WorkerReturns(i)
    /\ UNCHANGED <<kind, ret, outChan, errChan, gotOut, gotErr, receiving,
                   cancelled, waitPc, crashed>>

\* The block-epoch worker's Recv returns an epoch and the worker runs the select
\* with its height. The send case is ready when the caller is already blocked
\* receiving, the ctx.Done() case when the ctx is already cancelled; with both
\* ready Go picks either, with none ready the worker blocks in the select.
RecvEpoch(i) ==
    /\ ~crashed
    /\ pc[i] = "recv"
    /\ kind[i] = "epoch"
    /\ InputsUsed < MaxInputs
    /\ \E ev \in EpochEvents :
        /\ log' = [log EXCEPT ![i] = Append(@, ev)]
        /\ \/ receiving[i] /\ Delivered(i, EpochOnEvent(ev))
           \/ CtxDone(i) /\ CancelObserved(i, EpochOnEvent(ev))
           \/ /\ ~receiving[i]
              /\ ~CtxDone(i)
              /\ pc' = [pc EXCEPT ![i] = "offer"]
              /\ pend' = [pend EXCEPT ![i] = <<EpochOnEvent(ev)>>]
              /\ UNCHANGED <<kind, ret, outChan, errChan, gotOut, gotErr,
                             receiving, cancelled, wg, waitPc, crashed>>

\* The worker blocked in the select is woken by the cancellation: return.
\* (A blocked select is committed to the first case that becomes ready.)
OfferCancelled(i) ==
    /\ ~crashed
    /\ pc[i] = "offer"
    /\ CtxDone(i)
    /\ CancelObserved(i, pend[i][1])
    /\ UNCHANGED log

\* ------------------------------------------------------------- caller
\* The caller receives from the buffered output channel.
CallerRecvOut(i) ==
    /\ ~crashed
    /\ outChan[i] # <<>>
    /\ gotOut' = [gotOut EXCEPT ![i] = Append(@, Head(outChan[i]))]
    /\ outChan' = [outChan EXCEPT ![i] = Tail(@)]
    /\ UNCHANGED <<kind, pc, ret, log, pend, errChan, gotErr, receiving,
                   cancelled, wg, waitPc, crashed>>

\* The caller starts receiving on the unbuffered output channel: it takes the
\* value of a worker blocked in the select (unless the cancellation has already
\* woken that worker), and blocks otherwise.
CallerRecvEpoch(i) ==
    /\ ~crashed
    /\ kind[i] = "epoch"
    /\ pc[i] \notin {"none", "failed"}
    /\ ~receiving[i]
    /\ IF pc[i] = "offer" /\ ~CtxDone(i)
       THEN Delivered(i, pend[i][1]) /\ UNCHANGED log
       ELSE /\ receiving' = [receiving EXCEPT ![i] = TRUE]
            /\ UNCHANGED <<kind, pc, ret, log, pend, outChan, errChan, gotOut,
                           gotErr, cancelled, wg, waitPc, crashed>>

\* The caller receives from the error channel.
CallerRecvErr(i) ==
    /\ ~crashed
    /\ errChan[i] # <<>>
    /\ gotErr' = [gotErr EXCEPT ![i] = Append(@, Head(errChan[i]))]
    /\ errChan' = [errChan EXCEPT ![i] = Tail(@)]
    /\ UNCHANGED <<kind, pc, ret, log, pend, outChan, gotOut, receiving,
                   cancelled, wg, waitPc, crashed>>

\* Mutant of Cancel: a worker waiting in Recv polls the ctx and returns.
CancelAborts(i) ==
    /\ ~crashed
    /\ pc[i] \notin {"none", "failed"}
    /\ ~cancelled[i]
    /\ InputsUsed < MaxInputs
    /\ cancelled' = [cancelled EXCEPT ![i] = TRUE]
    /\ pc' = [pc EXCEPT ![i] = IF @ = "recv" THEN "done" ELSE @]
    /\ wg' = IF pc[i] = "recv" THEN wg - 1 ELSE wg
    /\ UNCHANGED <<kind, ret, log, pend, outChan, errChan, gotOut, gotErr,
                   receiving, waitPc, crashed>>

\* The caller cancels the ctx it passed to registration call i.
Cancel(i) ==
    /\ ~crashed
    /\ pc[i] \notin {"none", "failed"}
    /\ ~cancelled[i]
    /\ InputsUsed < MaxInputs
    /\ cancelled' = [cancelled EXCEPT ![i] = TRUE]
    /\ UNCHANGED <<kind, pc, ret, log, pend, outChan, errChan, gotOut, gotErr,
                   receiving, wg, waitPc, crashed>>

\* s.wg.Wait() can return only when the counter is zero.
WaitCanReturn == wg = 0

\* WaitForFinished, called once after the registration calls have been made:
\* it blocks in s.wg.Wait() and returns.
WaitForFinished ==
    /\ ~crashed
    /\ waitPc = "idle"
    /\ \A i \in Subs : pc[i] # "none"
    /\ WaitCanReturn
    /\ waitPc' = "returned"
    /\ UNCHANGED <<kind, pc, ret, log, pend, outChan, errChan, gotOut, gotErr,
                   receiving, cancelled, wg, crashed>>

Next ==
    \/ \E i \in Subs : RegisterSpendNtfn(i)
    \/ \E i \in Subs : RegisterConfirmationsNtfn(i)
    \/ \E i \in Subs : RegisterBlockEpochNtfn(i)
    \/ \E i \in Subs : RecvEvent(i)
    \/ \E i \in Subs : RecvError(i)
    \/ \E i \in Subs : SendOut(i)
    \/ \E i \in Subs : SendErr(i)
    \/ \E i \in Subs : RecvEpoch(i)
    \/ \E i \in Subs : OfferCancelled(i)
    \/ \E i \in Subs : CallerRecvEpoch(i)
    \/ \E i \in Subs : CallerRecvOut(i)
    \/ \E i \in Subs : CallerRecvErr(i)
    \/ \E i \in Subs : Cancel(i)
    \/ WaitForFinished

Spec == Init /\ [][Next]_vars

\* A client used for block-epoch subscriptions only, with the scheduling the
\* runtime and the transport give: a runnable worker runs (its wake-up from the
\* select, its send on the buffered error channel), Recv on a stream whose ctx is
\* cancelled returns, and the caller's WaitForFinished runs.
NextEpoch ==
    \/ \E i \in Subs : RegisterBlockEpochNtfn(i)
    \/ \E i \in Subs : RecvError(i)
    \/ \E i \in Subs : SendErr(i)
    \/ \E i \in Subs : RecvEpoch(i)
    \/ \E i \in Subs : OfferCancelled(i)
    \/ \E i \in Subs : CallerRecvEpoch(i)
    \/ \E i \in Subs : CallerRecvErr(i)
    \/ \E i \in Subs : Cancel(i)
    \/ WaitForFinished

EpochFairness ==
    /\ \A i \in Subs : WF_vars(OfferCancelled(i))
    /\ \A i \in Subs : WF_vars(SendErr(i))
    /\ \A i \in Subs : WF_vars(cancelled[i] /\ (RecvEpoch(i) \/ RecvError(i)))
    /\ WF_vars(WaitForFinished)

EpochFairSpec == Init /\ [][NextEpoch]_vars /\ EpochFairness

\* ================================================================ claims
SingleShot(i) == kind[i] \in {"spend", "conf"} /\ pc[i] \notin {"none", "failed"}
\* Values written to the output channel, errors written to the error channel.
OutWritten(i) == outChan[i] \o gotOut[i]
ErrWritten(i) == errChan[i] \o gotErr[i]
Exited(i) == pc[i] \in {"done", "panicked"}

\* C1: a single-shot subscription writes at most one message (value or error) in
\* all, and exactly one once its worker has exited.
C1_ExactlyOneMessage ==
    \A i \in Subs : SingleShot(i) =>
        /\ Len(OutWritten(i)) + Len(ErrWritten(i)) <= 1
        /\ Exited(i) => Len(OutWritten(i)) + Len(ErrWritten(i)) = 1

\* C2: when WaitForFinished has returned, no worker of any kind is running.
C2_WaitForFinished ==
    waitPc = "returned" => \A i \in Subs : pc[i] \notin Running

\* Two workers of different kinds have exited and WaitForFinished has returned.
C2_Witness ==
    /\ waitPc = "returned"
    /\ \E i, j \in Subs : pc[i] = "done" /\ pc[j] = "done" /\ kind[i] # kind[j]

RunningSet == {i \in Subs : pc[i] \in Running}

\* C3: a registration call whose stream cannot be opened returns (nil, nil, err),
\* spawns no worker and leaves the WaitGroup counter alone; one whose stream opens
\* returns two channels and a nil error and spawns exactly one worker.
C3_Registration ==
    [][\A i \in Subs : (pc[i] = "none" /\ pc'[i] # "none") =>
          /\ ret[i] = NotReturned
          /\ \/ /\ ret'[i] = [out |-> "nil", err |-> "nil", error |-> "SetupError"]
                /\ RunningSet' = RunningSet
                /\ wg' = wg
             \/ /\ ret'[i] = [out |-> "chan", err |-> "chan", error |-> "nil"]
                /\ RunningSet' = RunningSet \cup {i}
                /\ i \notin RunningSet
                /\ wg' = wg + 1]_vars

\* One call of each kind has failed or succeeded: here a failed one and a
\* successful one, with its worker at Recv.
C3_Witness ==
    \E i, j \in Subs :
        /\ pc[i] = "failed" /\ ret[i].error = "SetupError"
        /\ pc[j] = "recv" /\ ret[j].error = "nil" /\ wg = 1

\* The heights the stream of call i has delivered, in order.
EpochLog(i) == SelectSeq(log[i], LAMBDA e : e.tag = "epoch")
HasError(i) == \E k \in 1..Len(log[i]) : log[i][k].tag = "error"
\* The values the worker has handed to the caller or is offering, in order.
Offered(i) == gotOut[i] \o (IF pc[i] = "offer" THEN pend[i] ELSE <<>>)
Epoch(i) == kind[i] = "epoch" /\ pc[i] \notin {"none", "failed"}

\* v is the uint32 u itself.
EqualsHeight(v, u) == v >= 0 /\ v \div 65536 = u.hi /\ v % 65536 = u.lo
\* v has the 32 bits of the uint32 u (v = u modulo 2^32).
SameBits(v, u) == (v \div 65536) % 65536 = u.hi /\ v % 65536 = u.lo

\* C4 as stated: with the ctx not cancelled, the values handed to the caller are
\* exactly the heights the stream delivered, in order, and no error is written
\* unless Recv returned one.
C4_Original ==
    \A i \in Subs : (Epoch(i) /\ ~cancelled[i]) =>
        /\ Len(Offered(i)) = Len(EpochLog(i))
        /\ \A k \in 1..Len(EpochLog(i)) :
              EqualsHeight(Offered(i)[k], EpochLog(i)[k].Height)
        /\ ~HasError(i) => (ErrWritten(i) = <<>> /\ pc[i] \in {"recv", "offer"})

\* C4 amended: the values handed to the caller are the heights the stream
\* delivered converted to int32 (the same 32 bits: the height itself below 2^31),
\* in order, none lost or repeated; no error is written and the worker stays in
\* its loop unless Recv returned an error.
C4_OrderedInt32 ==
    \A i \in Subs : (Epoch(i) /\ ~cancelled[i]) =>
        /\ Len(Offered(i)) = Len(EpochLog(i))
        /\ \A k \in 1..Len(EpochLog(i)) :
              /\ SameBits(Offered(i)[k], EpochLog(i)[k].Height)
              /\ EpochLog(i)[k].Height.hi < 32768 =>
                    EqualsHeight(Offered(i)[k], EpochLog(i)[k].Height)
        /\ ~HasError(i) => (ErrWritten(i) = <<>> /\ pc[i] \in {"recv", "offer"})

\* The caller has received 100, then the conversion of 2^31, then 100 again,
\* from a subscription that was never cancelled and got no error.
C4_Witness ==
    \E i \in Subs :
        /\ Epoch(i) /\ ~cancelled[i] /\ ~HasError(i)
        /\ Len(gotOut[i]) = 3
        /\ gotOut[i][1] = 100 /\ gotOut[i][2] < 0 /\ gotOut[i][3] = 100

\* The block-epoch worker of call i receives an epoch in this step.
EpochReady(i) == Epoch(i) /\ Len(EpochLog(i)') = Len(EpochLog(i)) + 1
NewHeight(i) == EpochLog(i)'[Len(EpochLog(i)')].Height

\* C5 as stated: when an epoch is received with the ctx already cancelled, its
\* value is dropped and the worker returns.
C5_Original ==
    [][\A i \in Subs : (EpochReady(i) /\ cancelled[i]) =>
          (pc'[i] = "done" /\ gotOut'[i] = gotOut[i])]_vars

\* C5 amended: when an epoch is received with the ctx already cancelled, the
\* worker does not block in the select. If the caller is not blocked receiving,
\* the worker returns and the value is dropped: not delivered, not buffered, no
\* error written. If the caller is blocked receiving, the worker may instead
\* hand the value over and go back to Recv. A worker that has returned delivers
\* nothing afterwards.
C5_DropOrDeliver ==
    [][\A i \in Subs :
          /\ (EpochReady(i) /\ cancelled[i]) =>
                \/ /\ pc'[i] = "done"
                   /\ gotOut'[i] = gotOut[i]
                   /\ outChan'[i] = outChan[i]
                   /\ errChan'[i] = errChan[i]
                   /\ pend'[i] = <<>>
                \/ /\ receiving[i]
                   /\ pc'[i] = "recv"
                   /\ gotOut'[i] = Append(gotOut[i], Int32(NewHeight(i)))
          /\ (Epoch(i) /\ pc[i] = "done") =>
                (gotOut'[i] = gotOut[i] /\ outChan'[i] = outChan[i])]_vars

\* A worker has returned through the cancellation with a height it never handed
\* over, while the caller was not receiving.
C5_Witness ==
    \E i \in Subs :
        /\ Epoch(i) /\ cancelled[i] /\ pc[i] = "done" /\ ~receiving[i]
        /\ ~HasError(i)
        /\ Len(gotOut[i]) < Len(EpochLog(i))

\* C6: a block-epoch worker whose ctx is cancelled eventually returns, and once
\* every registration call has been made and every worker still running has a
\* cancelled ctx, WaitForFinished eventually returns.
C6_NoLeak ==
    /\ \A i \in Subs :
          (Epoch(i) /\ cancelled[i] /\ pc[i] \in Running) ~> (pc[i] = "done")
    /\ ((\A i \in Subs : pc[i] # "none" /\ (pc[i] \in Running => cancelled[i]))
           ~> (waitPc = "returned"))

\* A block-epoch worker was cancelled before it handed over any value, has
\* returned without writing an error, and WaitForFinished has returned.
C6_Witness ==
    \E i \in Subs :
        /\ Epoch(i) /\ cancelled[i] /\ pc[i] = "done"
        /\ gotOut[i] = <<>> /\ ErrWritten(i) = <<>> /\ Len(EpochLog(i)) = 1
        /\ waitPc = "returned"

Conf(i) == kind[i] = "conf" /\ pc[i] \notin {"none", "failed"}
Spend(i) == kind[i] = "spend" /\ pc[i] \notin {"none", "failed"}

\* The worker of call i is about to send and the channel has room, or has
\* returned having written exactly `out` and `err`.
SendsOnce(i, at, out, err) ==
    \/ /\ pc[i] = at
       /\ OutWritten(i) = <<>> /\ ErrWritten(i) = <<>>
       /\ pend[i] = out \o err
       /\ IF at = "sendOut" THEN Len(outChan[i]) < OutCap(kind[i])
                            ELSE Len(errChan[i]) < ErrCap
    \/ pc[i] = "done" /\ OutWritten(i) = out /\ ErrWritten(i) = err

\* A "confirmed" event whose transaction decodes and whose block hash is 32 bytes.
WellFormedConf(ev) ==
    /\ ev.tag = "conf" /\ ~ev.d.isNil
    /\ ev.d.RawTx = "validTx" /\ ev.d.BlockHash.len = 32
TxConfirmationOf(ev) ==
    [BlockHeight |-> ev.d.BlockHeight, BlockHash |-> ev.d.BlockHash,
     Tx |-> "tx", TxIndex |-> ev.d.TxIndex]

\* C7: a confirmation worker that has received only "reorg" events has written
\* nothing and is at Recv; once a well-formed "confirmed" event follows them, that
\* event is the last one it receives, it writes no error, and it sends exactly
\* that event's TxConfirmation (a send that cannot block) and returns.
C7_ReorgThenConfirmed ==
    \A i \in Subs : Conf(i) =>
        /\ (\A j \in 1..Len(log[i]) : log[i][j].tag = "reorg") =>
              (pc[i] = "recv" /\ OutWritten(i) = <<>> /\ ErrWritten(i) = <<>>)
        /\ \A k \in 1..Len(log[i]) :
              (WellFormedConf(log[i][k])
                 /\ \A j \in 1..(k - 1) : log[i][j].tag = "reorg") =>
                  /\ k = Len(log[i])
                  /\ SendsOnce(i, "sendOut", <<TxConfirmationOf(log[i][k])>>, <<>>)

\* Two reorgs, then a well-formed confirmation, which the caller has received.
C7_Witness ==
    \E i \in Subs :
        /\ Conf(i) /\ Len(log[i]) = 3
        /\ log[i][1].tag = "reorg" /\ log[i][2].tag = "reorg"
        /\ WellFormedConf(log[i][3])
        /\ pc[i] = "done" /\ Len(gotOut[i]) = 1 /\ gotOut[i][1].TxIndex = 1

\* C8: a confirmation worker that receives an event with no variant, or with a
\* variant other than "confirmed" and "reorg", receives nothing after it, writes no
\* TxConfirmation, and sends exactly one error (a send that cannot block) and returns.
C8_EmptyOrUnknownVariant ==
    \A i \in Subs : Conf(i) =>
        \A k \in 1..Len(log[i]) :
            log[i][k].tag \in {"unset", "other"} =>
                /\ k = Len(log[i])
                /\ SendsOnce(i, "sendErr", <<>>,
                             <<IF log[i][k].tag = "unset" THEN "conf event empty"
                               ELSE "conf event has unexpected type">>)

\* An empty event after a reorg ended one subscription, an unknown variant ended
\* another; both errors have been written.
C8_Witness ==
    \E i, j \in Subs :
        /\ Conf(i) /\ Conf(j) /\ pc[i] = "done" /\ pc[j] = "done"
        /\ Len(log[i]) = 2 /\ log[i][2].tag = "unset"
        /\ ErrWritten(i) = <<"conf event empty">>
        /\ log[j][1].tag = "other"
        /\ ErrWritten(j) = <<"conf event has unexpected type">>

\* A "spend" event whose outpoint hash and transaction hash are 32 bytes and whose
\* transaction decodes.
WellFormedSpend(ev) ==
    /\ ev.tag = "spend" /\ ~ev.d.isNil /\ ~ev.d.SpendingOutpoint.isNil
    /\ ev.d.SpendingOutpoint.hash.len = 32 /\ ev.d.SpendingTxHash.len = 32
    /\ ev.d.RawSpendingTx = "validTx"
SpendDetailOf(ev) ==
    [SpentOutPoint |-> [Hash |-> ev.d.SpendingOutpoint.hash,
                        Index |-> ev.d.SpendingOutpoint.index],
     SpenderTxHash |-> ev.d.SpendingTxHash,
     SpenderInputIndex |-> ev.d.SpendingInputIndex,
     SpendingTx |-> "tx",
     SpendingHeight |-> ev.d.SpendingHeight.hi * 65536 + ev.d.SpendingHeight.lo]

\* C9: a spend worker that has received only events that are no "spend" has
\* written nothing and is at Recv; once a well-formed "spend" event follows them,
\* it receives nothing more, writes no error, and sends exactly that event's
\* SpendDetail (a send that cannot block) and returns.
C9_SkipUntilSpend ==
    \A i \in Subs : Spend(i) =>
        /\ (\A j \in 1..Len(log[i]) : log[i][j].tag \in {"reorg", "unset"}) =>
              (pc[i] = "recv" /\ OutWritten(i) = <<>> /\ ErrWritten(i) = <<>>)
        /\ \A k \in 1..Len(log[i]) :
              (WellFormedSpend(log[i][k])
                 /\ \A j \in 1..(k - 1) : log[i][j].tag \in {"reorg", "unset"}) =>
                  /\ k = Len(log[i])
                  /\ SendsOnce(i, "sendOut", <<SpendDetailOf(log[i][k])>>, <<>>)

\* Two events that are no spend, then a well-formed spend at height 700000,
\* whose SpendDetail the caller has received.
C9_Witness ==
    \E i \in Subs :
        /\ Spend(i) /\ Len(log[i]) = 3
        /\ log[i][1].tag = "reorg" /\ log[i][2].tag = "unset"
        /\ WellFormedSpend(log[i][3])
        /\ pc[i] = "done" /\ Len(gotOut[i]) = 1
        /\ gotOut[i][1].SpendingHeight = 700000
        /\ gotOut[i][1].SpenderInputIndex = 2

\* C10: for every kind, an error returned by Recv is the last thing the worker
\* receives; the worker sends exactly that error (a send that cannot block, the
\* error channel being empty and buffered) and returns, and the values written
\* are those written before the error: none for a single-shot worker, one per
\* epoch received before it for a block-epoch worker.
C10_StreamError ==
    \A i \in Subs : pc[i] \notin {"none", "failed"} =>
        \A k \in 1..Len(log[i]) :
            log[i][k].tag = "error" =>
                /\ k = Len(log[i])
                /\ \/ /\ pc[i] = "sendErr"
                      /\ pend[i] = <<"StreamError">>
                      /\ ErrWritten(i) = <<>>
                      /\ Len(errChan[i]) < ErrCap
                   \/ pc[i] = "done" /\ ErrWritten(i) = <<"StreamError">>
                /\ Len(OutWritten(i)) = IF kind[i] = "epoch" THEN k - 1 ELSE 0

\* Two subscriptions of different kinds, one of them a block-epoch subscription
\* that had delivered a height, ended by a stream error that the caller has not
\* read from either error channel.
C10_Witness ==
    \E i, j \in Subs :
        /\ kind[i] = "epoch" /\ kind[j] \in {"spend", "conf"}
        /\ pc[i] = "done" /\ pc[j] = "done"
        /\ Len(log[i]) = 2 /\ log[i][2].tag = "error" /\ Len(gotOut[i]) = 1
        /\ log[j][Len(log[j])].tag = "error"
        /\ errChan[i] = <<"StreamError">> /\ errChan[j] = <<"StreamError">>

\* The payload of a "spend" or "confirmed" event is present and does not decode:
\* a hash whose length is not 32 bytes, or raw bytes that are no transaction.
DecodeFails(ev) ==
    \/ /\ ev.tag = "spend" /\ ~ev.d.isNil
       /\ \/ ~ev.d.SpendingOutpoint.isNil /\ ev.d.SpendingOutpoint.hash.len # 32
          \/ ev.d.SpendingTxHash.len # 32
          \/ ev.d.RawSpendingTx # "validTx"
    \/ /\ ev.tag = "conf" /\ ~ev.d.isNil
       /\ (ev.d.BlockHash.len # 32 \/ ev.d.RawTx # "validTx")

\* C11: a single-shot worker that receives a "spend" or "confirmed" event whose
\* payload does not decode receives nothing after it, writes nothing to the
\* output channel, and sends exactly one error (a send that cannot block) and
\* returns.
C11_DecodeError ==
    \A i \in Subs : SingleShot(i) =>
        \A k \in 1..Len(log[i]) :
            DecodeFails(log[i][k]) =>
                /\ k = Len(log[i])
                /\ \E e \in {"HashError", "TxError"} :
                      SendsOnce(i, "sendErr", <<>>, <<e>>)

\* The events that take a single-shot worker of kind k out of its loop.
LeavesLoop(k, e) ==
    \/ e.tag = "error"
    \/ k = "spend" /\ e.tag = "spend"
    \/ k = "conf" /\ e.tag \in {"conf", "unset", "other"}

\* C12: cancelling the ctx of a single-shot subscription changes nothing of its
\* worker (position, value in hand, channels, stream history, WaitGroup counter),
\* and the worker leaves Recv only in a step in which the stream returns an
\* error or an event that ends the loop.
C12_CancelNotObserved ==
    [][\A i \in Subs : SingleShot(i) =>
          /\ cancelled'[i] # cancelled[i] =>
                /\ pc'[i] = pc[i] /\ pend'[i] = pend[i] /\ log'[i] = log[i]
                /\ outChan'[i] = outChan[i] /\ errChan'[i] = errChan[i]
                /\ wg' = wg
          /\ (pc[i] = "recv" /\ pc'[i] # "recv") =>
                /\ Len(log'[i]) = Len(log[i]) + 1
                /\ LeavesLoop(kind[i], log'[i][Len(log'[i])])]_vars

\* A confirmation worker and a spend worker, both cancelled, are still waiting in
\* Recv after events that do not end their loops.
C12_Witness ==
    \E i, j \in Subs :
        /\ kind[i] = "conf" /\ kind[j] = "spend"
        /\ cancelled[i] /\ cancelled[j]
        /\ pc[i] = "recv" /\ pc[j] = "recv"
        /\ log[i] # <<>>

\* C13: a worker at a send on a buffered channel (the output channel of a
\* single-shot subscription, the error channel of any subscription) always finds
\* room, whatever the caller has read, and returns with that send; the only other
\* places a worker waits are Recv and, for a block-epoch worker only, the offer
\* on its output channel.
C13_OnlyRecvBlocks ==
    /\ [](\A i \in Subs :
            /\ pc[i] = "sendOut" => (SingleShot(i) /\ Len(outChan[i]) < OutCap(kind[i]))
            /\ pc[i] = "sendErr" => Len(errChan[i]) < ErrCap
            /\ pc[i] = "offer" => kind[i] = "epoch")
    /\ [][\A i \in Subs :
            (pc[i] \in {"sendOut", "sendErr"} /\ pc'[i] # pc[i]) => pc'[i] = "done"]_vars

\* The caller has read nothing: a single-shot worker has returned leaving its
\* value in the output channel, and a block-epoch worker is blocked in its offer.
C13_Witness ==
    \E i, j \in Subs :
        /\ SingleShot(i) /\ pc[i] = "done" /\ Len(outChan[i]) = 1
        /\ kind[j] = "epoch" /\ pc[j] = "offer"
        /\ \A n \in Subs : gotOut[n] = <<>> /\ gotErr[n] = <<>>

\* The worker of call i receives in this step an event with tag t.
Receives(i, t) ==
    /\ Len(log'[i]) = Len(log[i]) + 1
    /\ log'[i][Len(log'[i])].tag = t

\* C14 as stated: in every kind, an event whose variant is unset or unknown is
\* the last one the worker receives and makes it write an error.
C14_Original ==
    \A i \in Subs : pc[i] \notin {"none", "failed"} =>
        \A k \in 1..Len(log[i]) :
            log[i][k].tag \in {"unset", "other"} =>
                /\ k = Len(log[i])
                /\ (pc[i] = "sendErr" \/ ErrWritten(i) # <<>>)

\* C14 amended: a confirmation worker that receives an event whose variant is
\* unset or unknown goes to send the error "conf event empty" or "conf event has
\* unexpected type"; a spend worker that receives an event whose variant is unset
\* writes nothing and calls Recv again.
C14_VariantHandling ==
    [][\A i \in Subs :
          /\ (Conf(i) /\ Receives(i, "unset")) =>
                (pc'[i] = "sendErr" /\ pend'[i] = <<"conf event empty">>)
          /\ (Conf(i) /\ Receives(i, "other")) =>
                (pc'[i] = "sendErr" /\ pend'[i] = <<"conf event has unexpected type">>)
          /\ (Spend(i) /\ Receives(i, "unset")) =>
                /\ pc'[i] = "recv" /\ pend'[i] = <<>>
                /\ outChan'[i] = outChan[i] /\ errChan'[i] = errChan[i]
                /\ wg' = wg]_vars

\* A spend worker has received two events with no variant and is waiting in Recv
\* with nothing written; a confirmation worker has written its error for an
\* unknown variant.
C14_Witness ==
    \E i, j \in Subs :
        /\ Spend(i) /\ Len(log[i]) = 2
        /\ log[i][1].tag = "unset" /\ log[i][2].tag = "unset"
        /\ pc[i] = "recv" /\ OutWritten(i) = <<>> /\ ErrWritten(i) = <<>>
        /\ Conf(j) /\ Len(log[j]) = 1 /\ log[j][1].tag = "other"
        /\ ErrWritten(j) = <<"conf event has unexpected type">>

\* C15: the WaitGroup counter is the number of workers that have been spawned
\* and have not exited, and is never negative; a successful registration raises
\* it by one in the step that spawns the worker, and the step in which a worker
\* exits, whatever the exit path, lowers it by one.
C15_CounterTracksWorkers ==
    /\ [](wg = Cardinality(RunningSet) /\ wg >= 0)
    /\ [][\A i \in Subs :
            /\ (i \notin RunningSet /\ i \in RunningSet') =>
                  (pc[i] = "none" /\ ret'[i].error = "nil" /\ wg' = wg + 1)
            /\ (i \in RunningSet /\ i \notin RunningSet') => wg' = wg - 1]_vars

\* A block-epoch worker has exited on the cancellation and a single-shot worker
\* on a decode failure, the counter is back at zero.
C15_Witness ==
    \E i, j \in Subs :
        /\ Epoch(i) /\ cancelled[i] /\ ~HasError(i) /\ pc[i] = "done"
        /\ SingleShot(j) /\ pc[j] = "done" /\ DecodeFails(log[j][Len(log[j])])
        /\ wg = 0

\* A "spend" event whose details or outpoint are absent, a "confirmed" event
\* whose details are absent.
PayloadAbsent(ev) ==
    \/ ev.tag = "spend" /\ (ev.d.isNil \/ ev.d.SpendingOutpoint.isNil)
    \/ ev.tag = "conf" /\ ev.d.isNil

\* C16: no worker panics and the process does not crash; a worker that receives
\* a "spend" or "confirmed" event with an absent payload goes to send an error
\* and returns.
C16_NoCrash ==
    /\ ~crashed
    /\ \A i \in Subs :
          /\ pc[i] # "panicked"
          /\ \A k \in 1..Len(log[i]) :
                (SingleShot(i) /\ PayloadAbsent(log[i][k])) =>
                    /\ k = Len(log[i])
                    /\ pc[i] \in {"sendErr", "done"}
                    /\ OutWritten(i) = <<>>
                    /\ pc[i] = "done" => Len(ErrWritten(i)) = 1

\* C17: a block-epoch worker blocked in its offer calls Recv no more and keeps
\* the WaitGroup counter above zero, so WaitForFinished has not returned and
\* does not return; it leaves the offer only in a step in which the caller
\* receives the offered value (back to Recv) or with its ctx cancelled (return).
C17_OfferBlocks ==
    /\ [](\A i \in Subs : pc[i] = "offer" =>
              (Epoch(i) /\ wg >= 1 /\ waitPc = "idle" /\ Len(pend[i]) = 1))
    /\ [][\A i \in Subs : pc[i] = "offer" =>
            /\ log'[i] = log[i]
            /\ errChan'[i] = errChan[i]
            /\ waitPc' = "idle"
            /\ pc'[i] # "offer" =>
                  \/ /\ pc'[i] = "recv"
                     /\ ~cancelled[i]
                     /\ gotOut'[i] = Append(gotOut[i], pend[i][1])
                  \/ /\ pc'[i] = "done"
                     /\ cancelled[i]
                     /\ gotOut'[i] = gotOut[i]]_vars

\* Every registration call has been made and every other worker has exited; one
\* block-epoch worker is blocked offering its second height to a caller that has
\* not cancelled, and WaitForFinished has not returned.
C17_Witness ==
    \E i \in Subs :
        /\ pc[i] = "offer" /\ ~cancelled[i] /\ ~receiving[i]
        /\ Len(gotOut[i]) = 1 /\ Len(EpochLog(i)) = 2
        /\ \A j \in Subs \ {i} : pc[j] = "done"
        /\ wg = 1 /\ waitPc = "idle"

\* The block-epoch worker of call i has returned through the ctx.Done() case of
\* its select: it has returned and Recv never gave it an error.
ExitedOnCancel(i) == Epoch(i) /\ pc[i] = "done" /\ ~HasError(i)

\* C18: a block-epoch worker that has returned on the cancellation has written
\* no error and left nothing in its channels, and from then on nothing is written
\* to either channel and the caller receives nothing more from them: a caller
\* blocked receiving on the output channel stays blocked.
C18_SilentAfterCancel ==
    /\ [](\A i \in Subs : ExitedOnCancel(i) =>
              (cancelled[i] /\ ErrWritten(i) = <<>> /\ outChan[i] = <<>>))
    /\ [][\A i \in Subs : ExitedOnCancel(i) =>
            /\ ExitedOnCancel(i)'
            /\ outChan'[i] = outChan[i] /\ errChan'[i] = errChan[i]
            /\ gotOut'[i] = gotOut[i] /\ gotErr'[i] = gotErr[i]
            /\ receiving[i] => receiving'[i]]_vars

\* A worker has returned on the cancellation while the caller is blocked
\* receiving on the output channel; WaitForFinished has returned.
C18_Witness ==
    \E i \in Subs :
        /\ ExitedOnCancel(i) /\ receiving[i]
        /\ Len(gotOut[i]) = 1 /\ Len(EpochLog(i)) = 2
        /\ waitPc = "returned"

\* v is the uint32 u minus 2^32, for u from 2^31 up: v is negative and v + 2^31
\* is u - 2^31.
EqualsHeightMinus2p32(v, u) ==
    /\ v < 0
    /\ (v + 2147483647) + 1 = (u.hi - 32768) * 65536 + u.lo

\* C19: every value a block-epoch worker hands over or offers is the height
\* received at the same position converted to int32: the height itself when it
\* is below 2^31, the height minus 2^32 (a negative number) from 2^31 up.
C19_HeightAsInt32 ==
    \A i \in Subs : Epoch(i) =>
        /\ Len(Offered(i)) <= Len(EpochLog(i))
        /\ \A k \in 1..Len(Offered(i)) :
              IF EpochLog(i)[k].Height.hi < 32768
              THEN EqualsHeight(Offered(i)[k], EpochLog(i)[k].Height)
              ELSE EqualsHeightMinus2p32(Offered(i)[k], EpochLog(i)[k].Height)

\* The caller has received the conversions of 2^31 - 1, of 2^31 and of 100:
\* 2147483647, -2147483648 and 100.
C19_Witness ==
    \E i \in Subs :
        /\ Epoch(i) /\ Len(gotOut[i]) = 3
        /\ gotOut[i][1] = 2147483647
        /\ gotOut[i][2] < 0 /\ gotOut[i][2] + 2147483647 = -1
        /\ gotOut[i][3] = 100
        /\ EpochLog(i)[2].Height = U32(32768, 0)

====
